---- MODULE Spec2Model ----
(***************************************************************************)
(* PyHtmlToPDF: the request-scoped conversion of a URL or of HTML text to  *)
(* PDF (app/api/v1/pdf.py, app/services/pdf_service.py, main.py), the      *)
(* option merge, and the log query (app/api/v1/system.py, main.py).        *)
(*                                                                         *)
(* Text is a sequence of one-character strings, so that formatting and     *)
(* substring containment are computed and not assumed.  An Optional value  *)
(* is a sequence of length at most one: <<>> is None, <<v>> is v.          *)
(***************************************************************************)
EXTENDS Integers, Sequences, FiniteSets, TLC

\* ------------------------------------------------------------------ bounds
\* Number of conversion requests in flight.
MaxConv == 2
\* Log query: lines in the store, and the largest limit asked for.
MaxLines == 2
MaxLimit == 3
\* Log query: characters in a line of the store, before its line end.
MaxLineLen == 2

\* -------------------------------------------------------------------- text
None == <<>>
Some(v) == <<v>>

\* Python truthiness of an Optional[str] / Optional[dict]: None and the empty
\* value are falsy.
Truthy(opt) == opt # None /\ opt[1] # <<>>

Digits == <<"0","1","2","3","4","5","6","7","8","9">>
Digit(n) == Digits[(n % 10) + 1]

\* `needle in line` of Python, on texts.
Contains(line, needle) ==
    \E i \in 0..(Len(line) - Len(needle)) :
        \A j \in 1..Len(needle) : line[i + j] = needle[j]

Whitespace == {" ", "\n", "\t"}

RECURSIVE lstrip(_)
lstrip(s) ==
    IF s # <<>> /\ Head(s) \in Whitespace THEN lstrip(Tail(s)) ELSE s

RECURSIVE rstrip(_)
rstrip(s) ==
    IF s # <<>> /\ s[Len(s)] \in Whitespace
    THEN rstrip(SubSeq(s, 1, Len(s) - 1))
    ELSE s

\* str.strip()
strip(s) == rstrip(lstrip(s))

\* The fixed texts of the f-strings and of the log format.
ReqPrefix ==
    <<"R","e","q","u","e","s","t"," ">>
MsgStartUrl ==
    <<":"," ","S","t","a","r","t","i","n","g"," ","U","R","L"," ","t","o"," ","P","D","F"," ","c","o","n","v","e","r","s","i","o","n">>
MsgStartHtml ==
    <<":"," ","S","t","a","r","t","i","n","g"," ","H","T","M","L"," ","t","o"," ","P","D","F"," ","c","o","n","v","e","r","s","i","o","n">>
MsgLaunch ==
    <<":"," ","L","a","u","n","c","h","i","n","g"," ","b","r","o","w","s","e","r">>
MsgNavigate ==
    <<":"," ","N","a","v","i","g","a","t","i","n","g"," ","t","o"," ","U","R","L">>
MsgSetContent ==
    <<":"," ","S","e","t","t","i","n","g"," ","H","T","M","L"," ","c","o","n","t","e","n","t">>
MsgGenerate ==
    <<":"," ","G","e","n","e","r","a","t","i","n","g"," ","P","D","F">>
MsgSuccess ==
    <<":"," ","P","D","F"," ","g","e","n","e","r","a","t","i","o","n"," ","c","o","m","p","l","e","t","e","d"," ","s","u","c","c","e","s","s","f","u","l","l","y">>
MsgFailed ==
    <<":"," ","P","D","F"," ","c","o","n","v","e","r","s","i","o","n"," ","f","a","i","l","e","d">>
LoggerName ==
    <<"a","p","p",".","s","e","r","v","i","c","e","s",".","p","d","f","_","s","e","r","v","i","c","e">>
FmtSep ==
    <<" ","-"," ">>
INFO ==
    <<"I","N","F","O">>
ERROR ==
    <<"E","R","R","O","R">>
DetailPrefix ==
    <<"P","D","F"," ","c","o","n","v","e","r","s","i","o","n"," ","f","a","i","l","e","d",":"," ">>

\* %(asctime)s: the clock is the number of lines written so far.
Asctime(n) == <<Digit(n \div 10), Digit(n)>>

\* format='%(asctime)s - %(name)s - %(levelname)s - %(message)s', one line
\* of the file per record.
FormatLine(n, name, level, message) ==
    Asctime(n) \o FmtSep \o name \o FmtSep \o level \o FmtSep
        \o message \o <<"\n">>

\* A message that leaves the identifier out.
RequestMsg_without_id(request_id, text) == ReqPrefix \o text

\* f"Request {request_id}<text>"
RequestMsg(request_id, text) == ReqPrefix \o request_id \o text

\* ----------------------------------------------------------------- options
\* A dict is a function on its keys.
EmptyDict == <<>>

\* PDFService.default_options
default_options ==
    [format |-> "A4",
     margin |-> [top |-> "1cm", right |-> "1cm", bottom |-> "1cm", left |-> "1cm"],
     print_background |-> TRUE,
     prefer_css_page_size |-> TRUE]

\* main.DEFAULT_OPTIONS
DEFAULT_OPTIONS ==
    [format |-> "A4",
     margin |-> [top |-> "0.75in", right |-> "0.75in", bottom |-> "0.75in", left |-> "0.75in"],
     print_background |-> TRUE,
     prefer_css_page_size |-> TRUE]

\* (options or {})
OrEmpty(options) == IF Truthy(options) THEN options[1] ELSE EmptyDict

\* A merge in which the first mapping wins.
DictMerge_first_wins(d, o) ==
    [k \in (DOMAIN d) \cup (DOMAIN o) |-> IF k \in DOMAIN d THEN d[k] ELSE o[k]]

\* {**d, **o}
DictMerge(d, o) ==
    [k \in (DOMAIN d) \cup (DOMAIN o) |-> IF k \in DOMAIN o THEN o[k] ELSE d[k]]

\* options = {**self.default_options, **(options or {})}
ResolveOptions(defaults, options) == DictMerge(defaults, OrEmpty(options))

\* ------------------------------------------------------------- conversions
MsgLoggingConfigured ==
    <<"L","o","g","g","i","n","g"," ","c","o","n","f","i","g","u","r","e","d"," ","-"," ","L","e","v","e","l",":"," ","I","N","F","O",","," ","F","i","l","e",":"," ","l","o","g","s",".","l","o","g">>
CoreLoggerName ==
    <<"a","p","p",".","c","o","r","e",".","l","o","g","g","i","n","g">>

\* str(e) of the errors the engine raises, one per engine call.
ErrStart ==
    <<"n","o"," ","d","r","i","v","e","r">>
ErrLaunch ==
    <<"n","o"," ","b","r","o","w","s","e","r">>
ErrNewPage ==
    <<"n","o"," ","p","a","g","e">>
ErrGoto ==
    <<"n","e","t",":",":","E","R","R">>
ErrSetContent ==
    <<"b","a","d"," ","h","t","m","l">>
ErrWait ==
    <<"T","i","m","e","o","u","t">>
ErrPdf ==
    <<"b","a","d"," ","o","p","t","i","o","n">>
ErrClose ==
    <<"c","l","o","s","e","d">>
\* The bytes page.pdf() returns.
PdfBytes ==
    <<"%","P","D","F">>

EngineError(call) ==
    [call |-> call,
     text |-> CASE call = "async_playwright" -> ErrStart
                [] call = "launch" -> ErrLaunch
                [] call = "new_page" -> ErrNewPage
                [] call = "goto" -> ErrGoto
                [] call = "set_content" -> ErrSetContent
                [] call = "wait_for_load_state" -> ErrWait
                [] call = "pdf" -> ErrPdf
                [] OTHER -> ErrClose]

Conv == 1..MaxConv

\* The requests the callers send: the kind of source, the X-Request-Id header
\* (absent, empty, or a caller's id) and the `options` field of the body.
CallerOptions == [margin |-> [top |-> "2cm"], scale |-> "2"]
Requests ==
    {[kind |-> "url",  x_request_id |-> None,          options |-> None],
     [kind |-> "html", x_request_id |-> Some(<<>>),    options |-> Some(CallerOptions)],
     [kind |-> "url",  x_request_id |-> Some(<<"a">>), options |-> Some(CallerOptions)],
     [kind |-> "html", x_request_id |-> Some(<<"a">>), options |-> None]}

\* str(uuid.uuid4()): the n-th identifier drawn.
uuid4(n) == <<"f", Digit(n)>>

\* x or str(uuid.uuid4()), with the number of identifiers drawn so far.
OrUuid(x, n) ==
    IF Truthy(x) THEN [id |-> x[1], next |-> n]
                 ELSE [id |-> uuid4(n), next |-> n + 1]

\* request_id = x_request_id or str(uuid.uuid4())        (the API handlers)
api_request_id(x_request_id, n) == OrUuid(x_request_id, n)

\* A service that draws its own identifier whatever it is handed.
service_request_id_redrawn(request_id, n) == [id |-> uuid4(n), next |-> n + 1]

\* request_id = request_id or str(uuid.uuid4())          (PDFService)
service_request_id(request_id, n) == OrUuid(request_id, n)

VARIABLES
    pc,              \* where each conversion stands
    kind,            \* "url" | "html" ("none" before the request arrives)
    x_request_id,    \* the header the caller sent
    api_rid,         \* request_id of the API handler
    svc_rid,         \* request_id of PDFService.convert_*_to_pdf
    options,         \* the resolved options of the conversion
    playwright,      \* the async_playwright() context: "none"|"running"|"stopped"
    browser,         \* the browser a conversion launched (0: none)
    browsers,        \* every browser launched: [open, users]
    calls,           \* the engine calls each conversion issued, in order
    exc,             \* the exception in flight in the service
    pdf_content,     \* the bytes page.pdf() returned
    response,        \* what the API handler answered
    logStore,        \* the log file, a sequence of lines
    logOwner,        \* the conversion that wrote each line (0: none)
    nextUuid,        \* identifiers drawn so far
    overrides,       \* option merge: the caller's options
    resolved,        \* option merge: the merged options
    logExists,       \* log query: whether the log file exists
    query,           \* log query: the query asked
    result           \* log query: the answer

convVars ==
    <<pc, kind, x_request_id, api_rid, svc_rid, options, playwright, browser,
      browsers, calls, exc, pdf_content, response, nextUuid>>
logVars == <<logStore, logOwner>>
mergeVars == <<overrides, resolved>>
queryVars == <<logExists, query, result>>
vars == <<convVars, logVars, mergeVars, queryVars>>

\* logger.info / logger.error of the service, through the file handler.
LogAppend(c, level, message) ==
    /\ logStore' = Append(logStore,
                          FormatLine(Len(logStore), LoggerName, level, message))
    /\ logOwner' = Append(logOwner, c)

\* The state after setup_logging() and PDFService().
InitConv ==
    /\ pc = [c \in Conv |-> "idle"]
    /\ kind = [c \in Conv |-> "none"]
    /\ x_request_id = [c \in Conv |-> None]
    /\ api_rid = [c \in Conv |-> None]
    /\ svc_rid = [c \in Conv |-> None]
    /\ options = [c \in Conv |-> None]
    /\ playwright = [c \in Conv |-> "none"]
    /\ browser = [c \in Conv |-> 0]
    /\ browsers = <<>>
    /\ calls = [c \in Conv |-> <<>>]
    /\ exc = [c \in Conv |-> None]
    /\ pdf_content = [c \in Conv |-> None]
    /\ response = [c \in Conv |-> None]
    /\ nextUuid = 0

InitLog ==
    /\ logStore = <<FormatLine(0, CoreLoggerName, INFO, MsgLoggingConfigured)>>
    /\ logOwner = <<0>>
    /\ logExists = TRUE

IdleMerge == overrides = None /\ resolved = None
IdleQuery == query = None /\ result = None

Init == InitConv /\ InitLog /\ IdleMerge /\ IdleQuery

\* StreamingResponse(io.BytesIO(pdf_content), media_type=..., headers=...)
StreamingResponse(k, content) ==
    [status_code |-> 200,
     body |-> content,
     media_type |-> "application/pdf",
     filename |-> IF k = "url" THEN "webpage.pdf" ELSE "document.pdf"]

\* HTTPException(status_code=500, detail=f"PDF conversion failed: {str(e)}")
HTTPException(e) ==
    [status_code |-> 500, detail |-> DetailPrefix \o e.text]

\* Every flow loads its content by navigating.
LoadCall_always_goto(k) == "goto"

\* The call that loads the content: page.goto(url) or page.set_content(html).
LoadCall(k) == IF k = "url" THEN "goto" ELSE "set_content"

Issue(c, call) == calls' = [calls EXCEPT ![c] = Append(@, call)]

\* An engine call raises inside `async with`: the context is left next.
Raise(c, call) ==
    /\ exc' = [exc EXCEPT ![c] = Some(EngineError(call))]
    /\ pc' = [pc EXCEPT ![c] = "pw_exit"]

\* The failure is re-raised and answered without a line in the log.
Surface_unlogged(c, e) ==
    /\ UNCHANGED logVars
    /\ response' = [response EXCEPT ![c] = Some(HTTPException(e))]
    /\ pc' = [pc EXCEPT ![c] = "done"]

\* The failure line written with an identifier kept on the shared service
\* instance: that of the conversion that started last.
Surface_shared_id(c, e) ==
    LET starts == {i \in DOMAIN logOwner :
                      /\ logOwner[i] # 0
                      /\ \A j \in 1..(i - 1) : logOwner[j] # logOwner[i]}
        last == CHOOSE i \in starts : \A j \in starts : j <= i
    IN /\ LogAppend(c, ERROR, RequestMsg(svc_rid[logOwner[last]][1], MsgFailed))
       /\ response' = [response EXCEPT ![c] = Some(HTTPException(e))]
       /\ pc' = [pc EXCEPT ![c] = "done"]

\* The `except Exception` of the service (log, re-raise) and then the one of
\* the API handler (HTTPException).
Surface(c, e) ==
    /\ LogAppend(c, ERROR, RequestMsg(svc_rid[c][1], MsgFailed))
    /\ response' = [response EXCEPT ![c] = Some(HTTPException(e))]
    /\ pc' = [pc EXCEPT ![c] = "done"]

\* The API handler receives a request and calls the service, which runs to
\* its first await: pdf.py 17-30 / 42-55, pdf_service.py 29-41 / 69-81.
Request(c) ==
    /\ pc[c] = "idle"
    /\ \E r \in Requests :
         LET k == r.kind
             h == r.x_request_id
             o == r.options
             api == api_request_id(h, nextUuid)
             svc == service_request_id(Some(api.id), api.next)
         IN /\ kind' = [kind EXCEPT ![c] = k]
            /\ x_request_id' = [x_request_id EXCEPT ![c] = h]
            /\ api_rid' = [api_rid EXCEPT ![c] = Some(api.id)]
            /\ svc_rid' = [svc_rid EXCEPT ![c] = Some(svc.id)]
            /\ nextUuid' = svc.next
            /\ options' = [options EXCEPT ![c] =
                              Some(ResolveOptions(default_options, o))]
            /\ LogAppend(c, INFO,
                         RequestMsg(svc.id, IF k = "url" THEN MsgStartUrl
                                                         ELSE MsgStartHtml))
    /\ pc' = [pc EXCEPT ![c] = "pw_start"]
    /\ UNCHANGED <<playwright, browser, browsers, calls, exc, pdf_content,
                   response, mergeVars, queryVars>>

\* async_playwright().__aenter__ returns or raises.
PlaywrightStarted(c) ==
    /\ pc[c] = "pw_start"
    /\ \/ /\ playwright' = [playwright EXCEPT ![c] = "running"]
          /\ LogAppend(c, INFO, RequestMsg(svc_rid[c][1], MsgLaunch))
          /\ Issue(c, "launch")
          /\ pc' = [pc EXCEPT ![c] = "launch"]
          /\ UNCHANGED <<exc, response>>
       \/ /\ exc' = [exc EXCEPT ![c] = Some(EngineError("async_playwright"))]
          /\ Surface(c, EngineError("async_playwright"))
          /\ UNCHANGED <<playwright, calls>>
    /\ UNCHANGED <<kind, x_request_id, api_rid, svc_rid, options, browser,
                   browsers, pdf_content, nextUuid, mergeVars, queryVars>>

\* p.chromium.launch() returns a new browser, or raises.
Launched(c) ==
    /\ pc[c] = "launch"
    /\ \/ /\ browsers' = Append(browsers, [open |-> TRUE, users |-> {c}])
          /\ browser' = [browser EXCEPT ![c] = Len(browsers) + 1]
          /\ Issue(c, "new_page")
          /\ pc' = [pc EXCEPT ![c] = "new_page"]
          /\ UNCHANGED exc
       \/ /\ Raise(c, "launch")
          /\ UNCHANGED <<browsers, browser, calls>>
    /\ UNCHANGED <<kind, x_request_id, api_rid, svc_rid, options, playwright,
                   pdf_content, response, nextUuid, logVars, mergeVars,
                   queryVars>>

\* A call on the conversion's browser (or on its page).
Use(c) ==
    browsers' = [browsers EXCEPT ![browser[c]].users = @ \cup {c}]

\* browser.new_page() returns or raises.
PageCreated(c) ==
    /\ pc[c] = "new_page"
    /\ \/ /\ LogAppend(c, INFO,
                       RequestMsg(svc_rid[c][1],
                                  IF kind[c] = "url" THEN MsgNavigate
                                                     ELSE MsgSetContent))
          /\ Issue(c, LoadCall(kind[c]))
          /\ pc' = [pc EXCEPT ![c] = "load"]
          /\ UNCHANGED exc
       \/ /\ Raise(c, "new_page")
          /\ UNCHANGED <<calls, logVars>>
    /\ Use(c)
    /\ UNCHANGED <<kind, x_request_id, api_rid, svc_rid, options, playwright,
                   browser, pdf_content, response, nextUuid, mergeVars,
                   queryVars>>

\* The load returns and the PDF is printed at once, the wait left out.
ContentLoaded_no_wait(c) ==
    /\ pc[c] = "load"
    /\ \/ /\ Issue(c, "pdf")
          /\ pc' = [pc EXCEPT ![c] = "pdf"]
          /\ UNCHANGED exc
       \/ /\ Raise(c, LoadCall(kind[c]))
          /\ UNCHANGED calls
    /\ Use(c)
    /\ UNCHANGED <<kind, x_request_id, api_rid, svc_rid, options, playwright,
                   browser, pdf_content, response, nextUuid, logVars,
                   mergeVars, queryVars>>

\* page.goto(url) / page.set_content(html) returns or raises.
ContentLoaded(c) ==
    /\ pc[c] = "load"
    /\ \/ /\ Issue(c, "wait_for_load_state")
          /\ pc' = [pc EXCEPT ![c] = "wait"]
          /\ UNCHANGED exc
       \/ /\ Raise(c, LoadCall(kind[c]))
          /\ UNCHANGED calls
    /\ Use(c)
    /\ UNCHANGED <<kind, x_request_id, api_rid, svc_rid, options, playwright,
                   browser, pdf_content, response, nextUuid, logVars,
                   mergeVars, queryVars>>

\* page.wait_for_load_state('networkidle') returns or raises (its timeout).
NetworkIdle(c) ==
    /\ pc[c] = "wait"
    /\ \/ /\ LogAppend(c, INFO, RequestMsg(svc_rid[c][1], MsgGenerate))
          /\ Issue(c, "pdf")
          /\ pc' = [pc EXCEPT ![c] = "pdf"]
          /\ UNCHANGED exc
       \/ /\ Raise(c, "wait_for_load_state")
          /\ UNCHANGED <<calls, logVars>>
    /\ Use(c)
    /\ UNCHANGED <<kind, x_request_id, api_rid, svc_rid, options, playwright,
                   browser, pdf_content, response, nextUuid, mergeVars,
                   queryVars>>

\* page.pdf(**options) returns the bytes or raises; on return the service
\* calls browser.close().
PdfRendered(c) ==
    /\ pc[c] = "pdf"
    /\ \/ /\ pdf_content' = [pdf_content EXCEPT ![c] = Some(PdfBytes)]
          /\ Issue(c, "close")
          /\ pc' = [pc EXCEPT ![c] = "close"]
          /\ UNCHANGED exc
       \/ /\ Raise(c, "pdf")
          /\ UNCHANGED <<calls, pdf_content>>
    /\ Use(c)
    /\ UNCHANGED <<kind, x_request_id, api_rid, svc_rid, options, playwright,
                   browser, response, nextUuid, logVars, mergeVars, queryVars>>

\* browser.close() returns, or raises (leaving the browser closed or not).
BrowserClosed(c) ==
    /\ pc[c] = "close"
    /\ \/ /\ browsers' = [browsers EXCEPT ![browser[c]] =
                             [open |-> FALSE, users |-> @.users \cup {c}]]
          /\ pc' = [pc EXCEPT ![c] = "pw_exit"]
          /\ UNCHANGED exc
       \/ /\ \E o \in BOOLEAN :
                browsers' = [browsers EXCEPT ![browser[c]] =
                                [open |-> o, users |-> @.users \cup {c}]]
          /\ Raise(c, "close")
    /\ UNCHANGED <<kind, x_request_id, api_rid, svc_rid, options, playwright,
                   browser, calls, pdf_content, response, nextUuid, logVars,
                   mergeVars, queryVars>>

\* async_playwright().__aexit__ returns: the service logs and returns the
\* bytes, or its `except` logs and re-raises; the API handler answers.
PlaywrightStopped(c) ==
    /\ pc[c] = "pw_exit"
    /\ playwright' = [playwright EXCEPT ![c] = "stopped"]
    /\ \/ /\ exc[c] = None
          /\ LogAppend(c, INFO, RequestMsg(svc_rid[c][1], MsgSuccess))
          /\ response' = [response EXCEPT ![c] =
                             Some(StreamingResponse(kind[c], pdf_content[c][1]))]
          /\ pc' = [pc EXCEPT ![c] = "done"]
       \/ /\ exc[c] # None
          /\ Surface(c, exc[c][1])
    /\ UNCHANGED <<kind, x_request_id, api_rid, svc_rid, options, browser,
                   browsers, calls, exc, pdf_content, nextUuid, mergeVars,
                   queryVars>>

Next ==
    \E c \in Conv :
        \/ Request(c)
        \/ PlaywrightStarted(c)
        \/ Launched(c)
        \/ PageCreated(c)
        \/ ContentLoaded(c)
        \/ NetworkIdle(c)
        \/ PdfRendered(c)
        \/ BrowserClosed(c)
        \/ PlaywrightStopped(c)

Spec == Init /\ [][Next]_vars

\* A step of a conversion that the service has started: the event loop
\* resumes the coroutine when its awaited engine call returns or raises.
Resume(c) ==
    \/ PlaywrightStarted(c)
    \/ Launched(c)
    \/ PageCreated(c)
    \/ ContentLoaded(c)
    \/ NetworkIdle(c)
    \/ PdfRendered(c)
    \/ BrowserClosed(c)
    \/ PlaywrightStopped(c)

\* Every awaited call ends, by a return or by an exception (the engine's
\* own timeout for a load or a wait), and the coroutine is then resumed.
SpecFair == Spec /\ \A c \in Conv : WF_vars(Resume(c))

\* -------------------------------------------------- properties: conversions
Count(seq, x) == Cardinality({i \in DOMAIN seq : seq[i] = x})

Done(c) == pc[c] = "done"
Failed(c) == Done(c) /\ response[c][1].status_code = 500
Succeeded(c) == Done(c) /\ response[c][1].status_code = 200

\* The steps of the protocol: 2 load content, 3 stabilize, 4 render.
Steps234 == {"goto", "set_content", "wait_for_load_state", "pdf"}

\* C1: when a conversion fails at step 2, 3 or 4, browser.close() has been
\* called exactly once on its session by the time the failure is surfaced.
C1_CloseCalledOnceOnFailure ==
    \A c \in Conv :
        (Failed(c) /\ exc[c][1].call \in Steps234) => Count(calls[c], "close") = 1

\* C2: when page.pdf() returned and browser.close() then raises, the caller
\* still receives the bytes: the answer is the 200 response with the PDF.
C2_CloseErrorKeepsResult ==
    \A c \in Conv :
        (Done(c) /\ pdf_content[c] # None /\ exc[c] # None
                 /\ exc[c][1].call = "close")
            => /\ response[c][1].status_code = 200
               /\ response[c][1].body = pdf_content[c][1]

Generated == {uuid4(n) : n \in 0..(nextUuid - 1)}

\* C6: the id of a conversion is the caller's X-Request-Id when that is
\* present and non-empty, and otherwise an identifier drawn for this request
\* alone; the service uses the id the API handler resolved.
C6_CorrelationId ==
    \A c \in Conv :
        pc[c] # "idle" =>
            /\ svc_rid[c] = api_rid[c]
            /\ Truthy(x_request_id[c]) => svc_rid[c][1] = x_request_id[c][1]
            /\ ~Truthy(x_request_id[c]) =>
                   /\ svc_rid[c][1] \in Generated
                   /\ \A d \in Conv \ {c} :
                          pc[d] # "idle" => svc_rid[d] # svc_rid[c]

\* Both cases of C6 at once: an empty header and a caller's id, both past
\* the service's resolution.
C6_Witness ==
    \E c, d \in Conv :
        /\ Done(c) /\ x_request_id[c] = Some(<<>>) /\ svc_rid[c][1] \in Generated
        /\ Done(d) /\ x_request_id[d] = Some(<<"a">>) /\ svc_rid[d] = Some(<<"a">>)

\* C7: every failure response carries the request's correlation id, as a
\* field of the payload or in its text.
C7_FailureCarriesId ==
    \A c \in Conv :
        Failed(c) =>
            \/ /\ "request_id" \in DOMAIN response[c][1]
               /\ response[c][1].request_id = api_rid[c][1]
            \/ Contains(response[c][1].detail, api_rid[c][1])

\* C8: every line a conversion appends to the log store contains the
\* correlation id of its request.
C8_LogLinesCarryId ==
    \A i \in DOMAIN logStore :
        logOwner[i] # 0 => Contains(logStore[i], api_rid[logOwner[i]][1])

\* A failed and a succeeded conversion, each with its whole trail written.
C8_Witness ==
    \E c, d \in Conv :
        /\ Failed(c) /\ Succeeded(d)
        /\ Cardinality({i \in DOMAIN logStore : logOwner[i] = c}) >= 2
        /\ Cardinality({i \in DOMAIN logStore : logOwner[i] = d}) = 5

\* C9: a failure of launch, load, stabilize or render is answered with
\* status 500, the kind of the error (LaunchFailed for a launch,
\* NavigationFailed for a load, RenderTimeout for the wait,
\* EngineRejectedOptions for the render), and no raw engine text.
C9_UniformFailure ==
    \A c \in Conv :
        (Failed(c) /\ exc[c][1].call \in {"launch"} \cup Steps234) =>
            LET call == exc[c][1].call
                errorKind ==
                    CASE call = "launch" -> "LaunchFailed"
                      [] call \in {"goto", "set_content"} -> "NavigationFailed"
                      [] call = "wait_for_load_state" -> "RenderTimeout"
                      [] OTHER -> "EngineRejectedOptions"
            IN /\ response[c][1].status_code = 500
               /\ "kind" \in DOMAIN response[c][1]
               /\ response[c][1].kind = errorKind
               /\ ~Contains(response[c][1].detail, exc[c][1].text)

\* ------------------------------------------------------------ option merge
\* The option mappings a caller may send: any subset of three known keys and
\* one unknown key, the margin over any subset of its sides.
Sides == {"top", "right", "bottom", "left"}
CallerMargins == {[s \in S |-> "2cm"] : S \in SUBSET Sides}
CallerValue(k, m) ==
    CASE k = "format" -> "Letter"
      [] k = "margin" -> m
      [] k = "print_background" -> FALSE
      [] OTHER -> "2"
CallerKeys == {"format", "margin", "print_background", "scale"}
CallerDicts ==
    {[k \in K |-> CallerValue(k, m)] : K \in SUBSET CallerKeys, m \in CallerMargins}
Overrides == {None} \cup {Some(d) : d \in CallerDicts}

InitMerge ==
    /\ InitConv /\ InitLog /\ IdleQuery
    /\ overrides \in Overrides
    /\ resolved = None

\* PDFService.convert_url_to_pdf / convert_html_to_pdf, line 32 / 72.
ResolveService ==
    /\ resolved = None
    /\ resolved' = Some([by |-> "PDFService",
                         options |-> ResolveOptions(default_options, overrides)])
    /\ UNCHANGED <<overrides, convVars, logVars, queryVars>>

\* main.convert_url_to_pdf / convert_html_to_pdf, line 188 / 236.
ResolveMain ==
    /\ resolved = None
    /\ resolved' = Some([by |-> "main",
                         options |-> ResolveOptions(DEFAULT_OPTIONS, overrides)])
    /\ UNCHANGED <<overrides, convVars, logVars, queryVars>>

NextMerge == ResolveService \/ ResolveMain

SpecMerge == InitMerge /\ [][NextMerge]_vars

\* The defaults the resolving code started from.
DefaultsOf(r) == IF r.by = "PDFService" THEN default_options ELSE DEFAULT_OPTIONS

\* The mapping the caller sent, None read as no key at all.
Sent == IF overrides = None THEN EmptyDict ELSE overrides[1]

\* C4: when the caller's `margin` names only some sides, the resolved margin
\* has the caller's value on those and the default on every other side.
C4_MarginMergedPerSide ==
    (resolved # None /\ "margin" \in DOMAIN Sent) =>
        LET m == resolved[1].options.margin
            d == DefaultsOf(resolved[1]).margin
        IN /\ DOMAIN m = Sides
           /\ \A s \in Sides :
                  m[s] = IF s \in DOMAIN Sent.margin THEN Sent.margin[s] ELSE d[s]

\* C5: every key the caller sent is in the resolved options with the
\* caller's value, and every default key the caller did not send keeps its
\* default: format A4, the default margin, both flags true.
C5_OverrideWinsKeyForKey ==
    resolved # None =>
        LET r == resolved[1].options
        IN /\ \A k \in DOMAIN Sent : k \in DOMAIN r /\ r[k] = Sent[k]
           /\ "format" \notin DOMAIN Sent => r.format = "A4"
           /\ "margin" \notin DOMAIN Sent =>
                  r.margin = [s \in Sides |->
                                 IF resolved[1].by = "PDFService" THEN "1cm"
                                                                 ELSE "0.75in"]
           /\ "print_background" \notin DOMAIN Sent => r.print_background = TRUE
           /\ "prefer_css_page_size" \notin DOMAIN Sent =>
                  r.prefer_css_page_size = TRUE
           /\ DOMAIN r = DOMAIN Sent \cup
                  {"format", "margin", "print_background", "prefer_css_page_size"}

\* A known key overridden, an unknown key passed through, a default kept.
C5_Witness ==
    /\ resolved # None
    /\ DOMAIN Sent = {"format", "scale"}
    /\ resolved[1].options.format = "Letter"
    /\ resolved[1].options.scale = "2"
    /\ resolved[1].options.print_background = TRUE

\* ---------------------------------------------------------------- log query
Min(a, b) == IF a < b THEN a ELSE b
Max(a, b) == IF a > b THEN a ELSE b

\* seq[start:] of Python: a negative start counts from the end, and both
\* ends are clamped to the sequence.
SliceFrom(seq, start) ==
    LET from == IF start < 0 THEN Max(Len(seq) + start, 0)
                             ELSE Min(start, Len(seq))
    IN SubSeq(seq, from + 1, Len(seq))

\* [line for line in lines if request_id in line]
FilterLines(lines, request_id) ==
    SelectSeq(lines, LAMBDA line : Contains(line, request_id))

\* The loop that builds `logs`: each line stripped, the empty ones skipped
\* (the timestamp of a record is the time of the query, not modelled).
RECURSIVE Records(_)
Records(lines) ==
    IF lines = <<>> THEN <<>>
    ELSE LET line == strip(Head(lines))
         IN (IF line # <<>> THEN <<[raw_log |-> line]>> ELSE <<>>)
                \o Records(Tail(lines))

\* A query that reads a missing file as an empty one.
get_logs_missing_as_empty(exists, file, limit, request_id) ==
    LET logs == Records(SliceFrom(IF Truthy(request_id)
                                  THEN FilterLines(file, request_id[1])
                                  ELSE file, -limit))
    IN [logs |-> logs,
        total |-> Len(logs),
        limit |-> limit,
        request_id_filter |-> request_id]

\* get_logs(limit, request_id) of system.py and of main.py, on a log file
\* that exists or not.
get_logs(exists, file, limit, request_id) ==
    IF ~exists
    THEN [logs |-> <<>>, message |-> "No log file found"]
    ELSE LET lines == IF Truthy(request_id)
                      THEN FilterLines(file, request_id[1])
                      ELSE file
             logs == Records(SliceFrom(lines, -limit))
         IN [logs |-> logs,
             total |-> Len(logs),
             limit |-> limit,
             request_id_filter |-> request_id]

\* The texts of at most n characters over the alphabet.
RECURSIVE Texts(_, _)
Texts(alphabet, n) ==
    IF n = 0 THEN {<<>>}
    ELSE LET shorter == Texts(alphabet, n - 1)
         IN shorter \cup {Append(t, ch) : t \in shorter, ch \in alphabet}

\* The stores of at most n lines.
RECURSIVE Stores(_, _)
Stores(lines, n) ==
    IF n = 0 THEN {<<>>}
    ELSE LET shorter == Stores(lines, n - 1)
         IN shorter \cup {Append(st, l) : st \in shorter, l \in lines}

\* A line of the file is its text and the line end.
FileLines == {t \o <<"\n">> : t \in Texts({"a", "b", " "}, MaxLineLen)}

\* The `limit` and `request_id` parameters of a query.
Limits == (-1)..MaxLimit
Filters == {None, Some(<<>>), Some(<<"a">>), Some(<<"a","b">>), Some(<<" ">>)}

InitQuery ==
    /\ InitConv /\ IdleMerge /\ IdleQuery
    /\ logExists \in BOOLEAN
    /\ logStore \in (IF logExists THEN Stores(FileLines, MaxLines) ELSE {<<>>})
    /\ logOwner = [i \in DOMAIN logStore |-> 0]

\* GET /logs
GetLogs ==
    /\ query = None
    /\ \E limit \in Limits, request_id \in Filters :
         /\ query' = Some([limit |-> limit, request_id |-> request_id])
         /\ result' = Some(get_logs(logExists, logStore, limit, request_id))
    /\ UNCHANGED <<logExists, convVars, logVars, mergeVars>>

NextQuery == GetLogs

SpecQuery == InitQuery /\ [][NextQuery]_vars

\* C10: with a non-empty filter and a limit >= 0, the answer is the last
\* min(limit, m) of the m lines of the store that contain the filter, in
\* the order of the store: no other line, and never more than limit.
C10_LastMatchingLines ==
    (query # None /\ logExists /\ query[1].limit >= 0
                  /\ Truthy(query[1].request_id)) =>
        LET f == query[1].request_id[1]
            limit == query[1].limit
            matching == SelectSeq(logStore, LAMBDA line : Contains(line, f))
            m == Len(matching)
            n == Min(limit, m)
            logs == result[1].logs
        IN /\ Len(logs) = n
           /\ Len(logs) <= limit
           /\ \A i \in 1..Len(logs) :
                  /\ i <= n
                  /\ logs[i].raw_log = strip(matching[m - n + i])
                  /\ Contains(logs[i].raw_log, f)

\* C11: a query on a missing log file answers an empty `logs` list with the
\* message "No log file found", whatever the limit and the filter, and
\* leaves the file missing and the store untouched.
C11_MissingStore ==
    [][(~logExists /\ query = None /\ query' # None) =>
          /\ result'[1] = [logs |-> <<>>, message |-> "No log file found"]
          /\ ~logExists'
          /\ logStore' = logStore]_vars

\* A filtered query with a positive limit answered on a missing file.
C11_Witness ==
    /\ ~logExists
    /\ query = Some([limit |-> MaxLimit, request_id |-> Some(<<"a">>)])
    /\ result # None
    /\ result[1].logs = <<>>

\* ------------------------------------------------- properties: engine calls
\* The conversion has issued its load call.
LoadIssued(c) == pc[c] \in {"load", "wait", "pdf", "close"} \/ Succeeded(c)

\* C12: an HTML conversion never calls goto, and once it loads its content
\* its call log holds set_content; a URL conversion never calls set_content,
\* and once it loads its content its call log holds goto.
C12_LoadCallByKind ==
    \A c \in Conv :
        pc[c] # "idle" =>
            /\ kind[c] = "html" =>
                  /\ Count(calls[c], "goto") = 0
                  /\ LoadIssued(c) => Count(calls[c], "set_content") = 1
            /\ kind[c] = "url" =>
                  /\ Count(calls[c], "set_content") = 0
                  /\ LoadIssued(c) => Count(calls[c], "goto") = 1

\* An HTML and a URL conversion have both run to their PDF.
C12_Witness ==
    \E c, d \in Conv :
        /\ kind[c] = "html" /\ Succeeded(c)
        /\ kind[d] = "url" /\ Succeeded(d)
        /\ Count(calls[c], "set_content") = 1
        /\ Count(calls[d], "goto") = 1

\* -------------------------------------------- properties: interleaved logs
\* The message texts of the conversion flows and their levels.
MsgTexts ==
    {MsgStartUrl, MsgStartHtml, MsgLaunch, MsgNavigate, MsgSetContent,
     MsgGenerate, MsgSuccess, MsgFailed}
Levels == {INFO, ERROR}

\* The identifiers a conversion can run under, and the lines the store can
\* hold: the setup line and at most five lines for each conversion.
KnownIds ==
    {r.x_request_id[1] : r \in {q \in Requests : Truthy(q.x_request_id)}}
        \cup {uuid4(n) : n \in 0..(MaxConv - 1)}
StoreSlots == 0..(5 * MaxConv)

\* The line format at each slot of the store, filled with each identifier.
FilledLines ==
    [n \in StoreSlots, id \in KnownIds |->
        {FormatLine(n, LoggerName, level, RequestMsg(id, text)) :
            level \in Levels, text \in MsgTexts}]

\* Line i of the store is the line format filled with this identifier.
FilledWith(i, id) == logStore[i] \in FilledLines[i - 1, id]

\* Two conversions in flight or finished whose identifiers differ, neither
\* a substring of the other.
IdsApart(c, d) ==
    /\ c # d
    /\ api_rid[c] # None /\ api_rid[d] # None
    /\ ~Contains(api_rid[c][1], api_rid[d][1])
    /\ ~Contains(api_rid[d][1], api_rid[c][1])

\* C13 as stated: with two conversions interleaved whose identifiers differ,
\* neither a substring of the other, every line of one holds its own
\* identifier and nowhere the text of the other's.
C13_NeverOthersId ==
    \A c, d \in Conv :
        IdsApart(c, d) =>
            \A i \in DOMAIN logStore :
                logOwner[i] = c =>
                    /\ Contains(logStore[i], api_rid[c][1])
                    /\ ~Contains(logStore[i], api_rid[d][1])

\* C13: with two conversions interleaved whose identifiers differ, neither
\* a substring of the other, every line of one is the line format filled
\* with its own identifier, which it therefore holds, and never the format
\* filled with the other's.
C13_LinesFilledWithOwnId ==
    \A c, d \in Conv :
        IdsApart(c, d) =>
            \A i \in DOMAIN logStore :
                logOwner[i] = c =>
                    /\ FilledWith(i, api_rid[c][1])
                    /\ Contains(logStore[i], api_rid[c][1])
                    /\ ~FilledWith(i, api_rid[d][1])

\* Two conversions with identifiers apart write their lines interleaved,
\* and the text of one identifier occurs in a line of the other.
C13_Witness ==
    \E c, d \in Conv :
        /\ IdsApart(c, d)
        /\ \E i, j, k \in DOMAIN logStore :
              /\ i < j /\ j < k
              /\ logOwner[i] = c /\ logOwner[j] = d /\ logOwner[k] = c
              /\ Contains(logStore[k], api_rid[d][1])
        /\ Failed(c)

\* The engine calls of a conversion, in the order of the source.
Protocol(k) ==
    <<"launch", "new_page", LoadCall(k), "wait_for_load_state", "pdf", "close">>

IsPrefix(s, t) == Len(s) <= Len(t) /\ s = SubSeq(t, 1, Len(s))

\* C14: the engine calls of a conversion are a prefix of launch, page, load
\* (goto or set_content), wait for network idle, print, close, so each is
\* made at most once and in that order; print is called only when the wait
\* has returned; once a call has failed the call log ends with it, or with
\* a close after it, and the failed call is not in the log twice.
C14_CallOrder ==
    \A c \in Conv :
        /\ IsPrefix(calls[c], Protocol(kind[c]))
        /\ Count(calls[c], "pdf") > 0 =>
              /\ pc[c] # "wait"
              /\ exc[c] # None => exc[c][1].call # "wait_for_load_state"
        /\ (exc[c] # None /\ exc[c][1].call # "async_playwright") =>
              LET n == Len(calls[c])
                  failed == exc[c][1].call
              IN /\ n > 0
                 /\ Count(calls[c], failed) = 1
                 /\ \/ calls[c][n] = failed
                    \/ /\ n > 1
                       /\ calls[c][n] = "close"
                       /\ calls[c][n - 1] = failed

\* One conversion failed at the wait and made no call after it; another
\* ran all six calls.
C14_Witness ==
    \E c, d \in Conv :
        /\ Failed(c)
        /\ exc[c] # None /\ exc[c][1].call = "wait_for_load_state"
        /\ Len(calls[c]) = 4
        /\ Succeeded(d)
        /\ calls[d] = Protocol(kind[d])

\* -------------------------------------------------- properties: step trail
\* The call that begins each step of the protocol: launch, load content,
\* stabilize, render, teardown (the page is created within the launch step).
StepCalls(k) == {"launch", LoadCall(k), "wait_for_load_state", "pdf", "close"}

\* In this step the conversion begins a step of the protocol.
StepBegins(c) ==
    /\ calls'[c] # calls[c]
    /\ calls'[c][Len(calls'[c])] \in StepCalls(kind[c])

\* In this step the conversion's pending step of the protocol completes:
\* the page is there, or the load, the wait, the print or the close returns.
StepCompletes(c) ==
    /\ pc[c] \in {"new_page", "load", "wait", "pdf", "close"}
    /\ pc'[c] # pc[c]
    /\ exc'[c] = None

\* In this step the conversion writes a line that holds its identifier.
LoggedNow(c) ==
    /\ Len(logStore') = Len(logStore) + 1
    /\ logOwner'[Len(logStore')] = c
    /\ Contains(logStore'[Len(logStore')], api_rid[c][1])

\* C15: whenever a conversion begins one of the five steps of the protocol,
\* and whenever one of them completes, it writes at that moment a log line
\* with its identifier (one line may serve as the end of a step and the
\* beginning of the next).
C15_StepsLoggedBeforeAndAfter ==
    [][\A c \in Conv : (StepBegins(c) \/ StepCompletes(c)) => LoggedNow(c)]_vars

\* The start, success and failure lines at each slot of the store for each
\* identifier.
StartLines ==
    [n \in StoreSlots, id \in KnownIds |->
        {FormatLine(n, LoggerName, INFO, RequestMsg(id, text)) :
            text \in {MsgStartUrl, MsgStartHtml}}]
SuccessLines ==
    [n \in StoreSlots, id \in KnownIds |->
        {FormatLine(n, LoggerName, INFO, RequestMsg(id, MsgSuccess))}]
FailureLines ==
    [n \in StoreSlots, id \in KnownIds |->
        {FormatLine(n, LoggerName, ERROR, RequestMsg(id, MsgFailed))}]

\* The lines of a conversion, and those of them that a table holds.
Mine(c) == {i \in DOMAIN logStore : logOwner[i] = c}
MineIn(c, table) ==
    {i \in Mine(c) : logStore[i] \in table[i - 1, api_rid[c][1]]}

\* C16: a conversion has exactly one start line, its first line, written
\* before any engine call; it has no end line while it runs and exactly one
\* once it has ended, its last line, written after its last engine call:
\* the success line if and only if it returns the PDF bytes, the failure
\* line if and only if it raises, never both.
C16_OneStartOneEnd ==
    \A c \in Conv :
        (pc[c] # "idle" \/ calls[c] # <<>>) =>
            LET starts == MineIn(c, StartLines)
                succs == MineIn(c, SuccessLines)
                fails == MineIn(c, FailureLines)
            IN /\ Cardinality(starts) = 1
               /\ \A i \in starts : \A j \in Mine(c) : i <= j
               /\ ~Done(c) => succs = {} /\ fails = {}
               /\ Done(c) =>
                     /\ Cardinality(succs \cup fails) = 1
                     /\ \A i \in succs \cup fails : \A j \in Mine(c) : j <= i
                     /\ succs # {} <=> (Succeeded(c) /\ response[c][1].body = PdfBytes)
                     /\ fails # {} <=> Failed(c)
                     /\ ~(Succeeded(c) /\ Failed(c))

\* One conversion ended with its success line after six engine calls and
\* another with its failure line after a failed print.
C16_Witness ==
    \E c, d \in Conv :
        /\ Succeeded(c) /\ Len(calls[c]) = 6
        /\ Cardinality(MineIn(c, SuccessLines)) = 1
        /\ Failed(d) /\ exc[d] # None /\ exc[d][1].call = "pdf"
        /\ Cardinality(MineIn(d, FailureLines)) = 1

Terminates ==
    \A c \in Conv : (pc[c] # "idle") ~> (Done(c) /\ (Succeeded(c) \/ Failed(c)))

====
